---- MODULE Spec2Model ----
(***************************************************************************)
(* The evolution simulator of rosomaxa: EvolutionSimulator::new / run      *)
(* (seeding of the initial population) followed by RunSimple::run (the     *)
(* generation loop), src/rosomaxa/src/heuristics/evolution/mod.rs.         *)
(*                                                                         *)
(* A solution is represented by its fitness (a natural number, lower is    *)
(* better).  A population is the sequence of its solutions in ranked       *)
(* (best-first) order.  Termination, quota, the construction operators and *)
(* the hyper-heuristic are collaborators whose outcomes are drawn          *)
(* nondeterministically at every call.                                     *)
(***************************************************************************)
EXTENDS Integers, Sequences, FiniteSets, TLC

\* ------------------------------------------------------------------ bounds
MaxInd == 2         \* longest initial.individuals list
MaxSize == 2        \* largest initial.max_size
MaxOps == 2         \* largest number of construction operators
MaxDesired == 3     \* largest desired_amount
MaxFit == 1         \* fitness values are 0..MaxFit
MaxGen == 4         \* generations of the loop after which termination fires
PopCap == 3         \* capacity of the (bounded) population
SelectSize == 2     \* number of parents select() yields at most
InitialQuota == 1   \* initial.quota, on the scale of the termination estimate
MaxRatioNum == 9    \* largest duration (ms) of the ratios evaluated
MaxRatioDen == 4    \* largest median (ms) of the ratios evaluated
MaxHeuristics == 2  \* largest number of operators registered with the dispatcher
MaxParents == 2     \* largest number of solutions handed to one search call
MaxDuration == 1    \* durations of an operator's search are 0..MaxDuration ms
MaxSearches == 2    \* search calls made on one dispatcher
MaxStops == 3       \* largest number of stops of a tour
MaxLoad == 1        \* stop loads reported are 0..MaxLoad

Fitness == 0..MaxFit
Estimates == 0..(InitialQuota + 1)

VARIABLES
    pc,                     \* position of the program
    individuals,            \* initial.individuals, taken by run and dropped after use
    max_size,               \* config.initial.max_size
    operators_len,          \* config.initial.operators.len()
    desired_amount,         \* config.desired_amount (RunSimple)
    quota,                  \* environment.quota: "none" | "open" | "reached"
    strategy_population,    \* RunSimple's own config.population
    population,             \* the population moved into the heuristic context
    idx,                    \* index of the seeding iteration
    parents,                \* parents selected in the current generation
    offspring,              \* offspring of the current generation
    is_improved,            \* local is_improved of the current generation
    generations,            \* generations of the loop completed
    on_initial,             \* telemetry: idx of every on_initial callback
    on_generation,          \* telemetry: on_generation callbacks, last is_improved
    population_on_generation, \* population.on_generation notifications
    on_result,              \* telemetry: number of on_result callbacks
    result,                 \* value returned by new / run
    creates,                \* number of InitialOperator::create calls
    operator_idx,           \* operator_idx of the last create, -1 before it
    calls,                  \* collaborator calls of the latest generation, in order
    totals,                 \* number of select / search / add_all calls so far
    polled,                 \* what the last poll of termination and quota saw
    term_seen,              \* is_termination has returned true at some poll
    flip_at,                \* on_generation callbacks received when quota flipped
    ds_pc,                  \* position of DynamicSelective::new / search
    heuristics_len,         \* action_registry.heuristics.len()
    initial_estimates,      \* DynamicSelective::initial_estimates
    heuristic_simulator,    \* the state estimates of heuristic_simulator
    heuristic_median,       \* observations held by heuristic_median
    heuristic_ctx,          \* the context handed to search
    agents,                 \* the agents of the search call under way
    returned,               \* what the last search call returned
    median_before,          \* heuristic_median as the search call started
    estimates_before,       \* heuristic_simulator as the search call started
    searches,               \* search calls completed
    probe_in,               \* arguments of the function under evaluation
    probe_out               \* << its value >>, << >> before it is computed

vars == << pc, individuals, max_size, operators_len, desired_amount, quota,
           strategy_population, population, idx, parents, offspring,
           is_improved, generations, on_initial, on_generation,
           population_on_generation, on_result, result, creates,
           operator_idx, calls, totals, polled, term_seen, flip_at,
           ds_pc, heuristics_len, initial_estimates, heuristic_simulator,
           heuristic_median, heuristic_ctx, agents, returned, median_before,
           estimates_before,
           searches, probe_in, probe_out >>

config_vars == << max_size, operators_len, desired_amount,
                  strategy_population >>

loop_vars == << parents, offspring, is_improved, generations, calls, totals >>

\* the state of the evolution simulator and of its strategy
evolution_vars == << pc, individuals, max_size, operators_len, desired_amount,
                     quota, strategy_population, population, idx, parents,
                     offspring, is_improved, generations, on_initial,
                     on_generation, population_on_generation, on_result,
                     result, creates, operator_idx, calls, totals, polled,
                     term_seen, flip_at >>

\* the state of the hyper-heuristic DynamicSelective
dispatcher_vars == << ds_pc, heuristics_len, initial_estimates,
                      heuristic_simulator, heuristic_median, heuristic_ctx,
                      agents, returned, median_before, estimates_before,
                      searches >>

\* a free function under evaluation
probe_vars == << probe_in, probe_out >>

\* what the evolution simulator's steps leave alone
side_vars == << dispatcher_vars, probe_vars >>

\* ----------------------------------------------------------------- helpers
Min(a, b) == IF a < b THEN a ELSE b

Take(seq, n) == SubSeq(seq, 1, Min(n, Len(seq)))

SeqsUpTo(S, n) == UNION { [1..k -> S] : k \in 0..n }

\* ------------------------------------------------- population (collaborator)
\* add: a bounded, ranked multiset; the new solution goes after its equals.
Insert(pop, s) ==
    LET k == Cardinality({ j \in 1..Len(pop) : pop[j] <= s })
    IN SubSeq(pop, 1, k) \o << s >> \o SubSeq(pop, k + 1, Len(pop))

PopAdd(pop, s) == Take(Insert(pop, s), PopCap)

RECURSIVE PopAddAll(_, _)
PopAddAll(pop, items) ==
    IF items = << >> THEN pop
    ELSE PopAddAll(PopAdd(pop, Head(items)), Tail(items))

\* what add_all returns: whether the best known solution improved
PopAddAllImproved(pop, items) ==
    /\ items # << >>
    /\ \/ pop = << >>
       \/ \E j \in 1..Len(items) : items[j] < pop[1]

PopSelect(pop) == Take(pop, SelectSize)

PopRanked(pop) == pop

PopSize(pop) == Len(pop)

\* ---------------------------------------------------------- free functions
\* (mutant) an empty population is no exception
should_add_solution_quota_only(q, pop) == q # "reached"

\* should_add_solution(quota, population)
should_add_solution(q, pop) ==
    LET is_quota_reached == (q = "reached")
        is_population_empty == (PopSize(pop) = 0)
    IN is_population_empty \/ ~is_quota_reached

\* (mutant) the quota is not polled
should_stop_no_quota(t, q) == t

\* should_stop(heuristic_ctx, termination), is_termination having returned t
should_stop(t, q) ==
    LET is_terminated == t
        is_quota_reached == (q = "reached")
    IN is_terminated \/ is_quota_reached

\* outcomes of termination.is_termination(ctx)
TermOutcomes == IF generations < MaxGen THEN BOOLEAN ELSE { TRUE }

NoResult == [kind |-> "None", solutions |-> << >>]
NoCalls == << >>
NoGenerations == [count |-> 0, is_improved |-> FALSE]
NoPoll == [is_terminated |-> FALSE, is_initial_quota_reached |-> FALSE,
           is_quota_reached |-> FALSE]
NoTotals == [select |-> 0, search |-> 0, add_all |-> 0]

\* the hyper-heuristic is a collaborator of the evolution simulator: its
\* search is drawn as an outcome there, and its own state stays aside
NoDispatcher ==
    /\ ds_pc = "aside"
    /\ heuristics_len = 0
    /\ initial_estimates = << >>
    /\ heuristic_simulator = << >>
    /\ heuristic_median = << >>
    /\ heuristic_ctx = << >>
    /\ agents = << >>
    /\ returned = << >>
    /\ median_before = << >>
    /\ estimates_before = << >>
    /\ searches = 0

NoProbe ==
    /\ probe_in = << >>
    /\ probe_out = << >>

\* -------------------------------------------------------------------- Init
Init ==
    /\ pc = "new"
    /\ individuals \in SeqsUpTo(Fitness, MaxInd)
    /\ max_size \in 0..MaxSize
    /\ operators_len \in 0..MaxOps
    /\ desired_amount \in 0..MaxDesired
    /\ quota \in { "none", "open", "reached" }
    /\ strategy_population \in { << >>, << 0 >> }
    /\ population = << >>
    /\ idx = 0
    /\ parents = << >>
    /\ offspring = << >>
    /\ is_improved = FALSE
    /\ generations = 0
    /\ on_initial = << >>
    /\ on_generation = NoGenerations
    /\ population_on_generation = 0
    /\ on_result = 0
    /\ result = NoResult
    /\ creates = 0
    /\ operator_idx = -1
    /\ calls = NoCalls
    /\ totals = NoTotals
    /\ polled = NoPoll
    /\ term_seen = FALSE
    /\ flip_at = IF quota = "reached" THEN 0 ELSE -1
    /\ NoDispatcher
    /\ NoProbe

\* ------------------------------------------------- EvolutionSimulator::new
\* (mutant) the pre-flight check is left out
NewRejects_never(n_operators) == FALSE

\* the pre-flight check of the configuration
NewRejects(n_operators) == n_operators = 0

New ==
    /\ pc = "new"
    /\ IF NewRejects(operators_len)
       THEN /\ pc' = "config_error"
            /\ result' = [kind |-> "Err", solutions |-> << >>]
       ELSE /\ pc' = "seed_supplied"
            /\ result' = result
    /\ UNCHANGED side_vars
    /\ UNCHANGED << config_vars, loop_vars, individuals, quota, population,
                    idx, on_initial, on_generation, population_on_generation,
                    on_result, creates, operator_idx, polled, term_seen, flip_at >>

\* ------------------------------------------------- EvolutionSimulator::run
\* (mutant) take(max_size) is left out
SuppliedCount_all(inds, size) == Len(inds)

\* individuals.into_iter().zip(0..).take(max_size): how many are considered
SuppliedCount(inds, size) == Min(Len(inds), size)

\* one iteration of the for_each over the supplied individuals
SeedSupplied ==
    /\ pc = "seed_supplied"
    /\ idx < SuppliedCount(individuals, max_size)
    /\ IF should_add_solution(quota, population)
       THEN /\ on_initial' = Append(on_initial, idx)
            /\ population' = PopAdd(population, individuals[idx + 1])
       ELSE UNCHANGED << on_initial, population >>
    /\ idx' = idx + 1
    /\ UNCHANGED side_vars
    /\ UNCHANGED << pc, config_vars, loop_vars, individuals, quota,
                    on_generation, population_on_generation, on_result,
                    result, creates, operator_idx, polled, term_seen, flip_at >>

\* (mutant) the fill range starts at 0, whatever the population holds
BuildContext_range_from_zero ==
    /\ pc = "seed_supplied"
    /\ idx >= SuppliedCount(individuals, max_size)
    /\ pc' = "fill"
    /\ individuals' = << >>
    /\ idx' = 0
    /\ UNCHANGED side_vars
    /\ UNCHANGED << config_vars, loop_vars, quota, population, on_initial,
                    on_generation, population_on_generation, on_result,
                    result, creates, operator_idx, polled, term_seen, flip_at >>

\* the supplied list is used up; the context factory takes the population and
\* the fill range starts at population.size()
BuildContext ==
    /\ pc = "seed_supplied"
    /\ idx >= SuppliedCount(individuals, max_size)
    /\ pc' = "fill"
    /\ individuals' = << >>
    /\ idx' = PopSize(population)
    /\ UNCHANGED side_vars
    /\ UNCHANGED << config_vars, loop_vars, quota, population, on_initial,
                    on_generation, population_on_generation, on_result,
                    result, creates, operator_idx, polled, term_seen, flip_at >>

\* (mutant) the overall termination is not looked at
FillStops_initial_quota_only(is_overall_termination, estimate) ==
    estimate > InitialQuota

\* is_initial_quota_reached || is_overall_termination
FillStops(is_overall_termination, estimate) ==
    LET is_initial_quota_reached == estimate > InitialQuota
    IN is_initial_quota_reached \/ is_overall_termination

\* head of one iteration of the try_for_each over size()..max_size
FillPoll ==
    /\ pc = "fill"
    /\ idx < max_size
    /\ \E t \in TermOutcomes, e \in Estimates :
          /\ term_seen' = (term_seen \/ t)
          /\ polled' = [is_terminated |-> t,
                        is_initial_quota_reached |-> (e > InitialQuota),
                        is_quota_reached |-> FALSE]
          /\ pc' = IF FillStops(t, e) THEN "seeded" ELSE "fill_build"
    /\ UNCHANGED side_vars
    /\ UNCHANGED << config_vars, loop_vars, individuals, quota, population,
                    idx, on_initial, on_generation, population_on_generation,
                    on_result, result, creates, operator_idx, flip_at >>

\* the range size()..max_size is exhausted
FillEnd ==
    /\ pc = "fill"
    /\ idx >= max_size
    /\ pc' = "seeded"
    /\ UNCHANGED side_vars
    /\ UNCHANGED << config_vars, loop_vars, individuals, quota, population,
                    idx, on_initial, on_generation, population_on_generation,
                    on_result, result, creates, operator_idx, polled, term_seen,
                    flip_at >>

\* operator_idx: idx itself while idx < operators.len(), else random.weighted
OperatorChoice(i, n_operators) ==
    IF i < n_operators THEN { i } ELSE 0..(n_operators - 1)

\* rest of the iteration: create a solution, add it unless the quota forbids
FillBuild ==
    /\ pc = "fill_build"
    /\ \E op \in OperatorChoice(idx, operators_len), s \in Fitness :
          /\ operator_idx' = op
          /\ creates' = creates + 1
          /\ IF should_add_solution(quota, population)
             THEN /\ on_initial' = Append(on_initial, idx)
                  /\ population' = PopAdd(population, s)
             ELSE UNCHANGED << on_initial, population >>
    /\ idx' = idx + 1
    /\ pc' = "fill"
    /\ UNCHANGED side_vars
    /\ UNCHANGED << config_vars, loop_vars, individuals, quota,
                    on_generation, population_on_generation, on_result,
                    result, polled, term_seen, flip_at >>

\* (mutant) the first on_generation is fired whatever the population holds
HasSolutions_always(pop) == TRUE

\* if heuristic_ctx.population().size() > 0
HasSolutions(pop) == PopSize(pop) > 0

\* telemetry.on_generation(ctx, estimate, time, is_improved)
TelemetryOnGeneration(t, improved) ==
    [count |-> t.count + 1, is_improved |-> improved]

\* the first on_generation, then config.evolution_strategy.run(heuristic_ctx):
\* the strategy works on its own config, and what the seeding read
\* (initial.max_size, initial.operators, idx, operator_idx) is not read again
AfterSeed ==
    /\ pc = "seeded"
    /\ IF HasSolutions(population)
       THEN /\ on_generation' = TelemetryOnGeneration(on_generation, TRUE)
            /\ population_on_generation' = population_on_generation + 1
       ELSE UNCHANGED << on_generation, population_on_generation >>
    /\ pc' = "loop_head"
    /\ idx' = 0
    /\ operator_idx' = -1
    /\ max_size' = -1
    /\ operators_len' = -1
    /\ UNCHANGED side_vars
    /\ UNCHANGED << desired_amount, strategy_population, loop_vars,
                    individuals, quota, population, on_initial, on_result,
                    result, creates, polled, term_seen, flip_at >>

\* --------------------------------------------------------- RunSimple::run
\* while !should_stop(..)
LoopHead ==
    /\ pc = "loop_head"
    /\ \E t \in TermOutcomes :
          /\ term_seen' = (term_seen \/ t)
          /\ polled' = [is_terminated |-> t,
                        is_initial_quota_reached |-> FALSE,
                        is_quota_reached |-> (quota = "reached")]
          /\ pc' = IF should_stop(t, quota) THEN "result" ELSE "select"
    /\ UNCHANGED side_vars
    /\ UNCHANGED << config_vars, loop_vars, individuals, quota, population,
                    idx, on_initial, on_generation, population_on_generation,
                    on_result, result, creates, operator_idx, flip_at >>

\* the population whose size the loop's should_add_solution looks at:
\* config.population of RunSimple's own config, not heuristic_ctx.population()
LoopGuardPopulation == strategy_population

\* (mutant) the parents are selected from the strategy's own population
Select_from_strategy_population ==
    /\ pc = "select"
    /\ parents' = PopSelect(LoopGuardPopulation)
    /\ calls' = << "select" >>
    /\ totals' = [totals EXCEPT !.select = @ + 1]
    /\ pc' = "search"
    /\ UNCHANGED side_vars
    /\ UNCHANGED << config_vars, offspring, is_improved, generations,
                    individuals, quota, population, idx, on_initial,
                    on_generation, population_on_generation, on_result,
                    result, creates, operator_idx, polled, term_seen, flip_at >>

\* parents = heuristic_ctx.population().select().collect()
Select ==
    /\ pc = "select"
    /\ parents' = PopSelect(population)
    /\ calls' = << "select" >>
    /\ totals' = [totals EXCEPT !.select = @ + 1]
    /\ pc' = "search"
    /\ UNCHANGED side_vars
    /\ UNCHANGED << config_vars, offspring, is_improved, generations,
                    individuals, quota, population, idx, on_initial,
                    on_generation, population_on_generation, on_result,
                    result, creates, operator_idx, polled, term_seen, flip_at >>

\* offspring = config.heuristic.search(&heuristic_ctx, parents)
Search ==
    /\ pc = "search"
    /\ offspring' \in [1..Len(parents) -> Fitness]
    /\ calls' = Append(calls, "search")
    /\ totals' = [totals EXCEPT !.search = @ + 1]
    /\ pc' = "add"
    /\ UNCHANGED side_vars
    /\ UNCHANGED << config_vars, parents, is_improved, generations,
                    individuals, quota, population, idx, on_initial,
                    on_generation, population_on_generation, on_result,
                    result, creates, operator_idx, polled, term_seen, flip_at >>

\* is_improved = if should_add_solution(..) { ..add_all(offspring) } else { false }
AddOffspring ==
    /\ pc = "add"
    /\ IF should_add_solution(quota, LoopGuardPopulation)
       THEN /\ population' = PopAddAll(population, offspring)
            /\ is_improved' = PopAddAllImproved(population, offspring)
            /\ calls' = Append(calls, "add_all")
            /\ totals' = [totals EXCEPT !.add_all = @ + 1]
       ELSE /\ is_improved' = FALSE
            /\ UNCHANGED << population, calls, totals >>
    /\ pc' = "on_generation"
    /\ UNCHANGED side_vars
    /\ UNCHANGED << config_vars, parents, offspring, generations,
                    individuals, quota, idx, on_initial, on_generation,
                    population_on_generation, on_result, result, creates,
                    operator_idx, polled, term_seen, flip_at >>

\* on_generation(ctx, telemetry, termination, generation_time, is_improved);
\* the iteration ends and its locals are dropped
OnGeneration ==
    /\ pc = "on_generation"
    /\ on_generation' = TelemetryOnGeneration(on_generation, is_improved)
    /\ population_on_generation' = population_on_generation + 1
    /\ generations' = generations + 1
    /\ parents' = << >>
    /\ offspring' = << >>
    /\ is_improved' = FALSE
    /\ calls' = calls \o << "telemetry.on_generation",
                            "population.on_generation" >>
    /\ pc' = "loop_head"
    /\ UNCHANGED side_vars
    /\ UNCHANGED << config_vars, totals, individuals, quota, population, idx,
                    on_initial, on_result, result, creates, operator_idx,
                    polled, term_seen, flip_at >>

\* (mutant) one solution more than desired is taken
ResultSolutions_one_more(pop, amount) == Take(PopRanked(pop), amount + 1)

\* ranked().map(deep_copy).take(desired_amount).collect()
ResultSolutions(pop, amount) == Take(PopRanked(pop), amount)

\* (mutant) an empty list of solutions is reported as an error
RunResult_err_when_empty(pop, amount) ==
    IF ResultSolutions(pop, amount) = << >>
    THEN [kind |-> "Err", solutions |-> << >>]
    ELSE [kind |-> "Ok", solutions |-> ResultSolutions(pop, amount)]

\* what RunSimple::run returns
RunResult(pop, amount) ==
    [kind |-> "Ok", solutions |-> ResultSolutions(pop, amount)]

\* telemetry.on_result, then the ranked solutions are returned
Result ==
    /\ pc = "result"
    /\ on_result' = on_result + 1
    /\ result' = RunResult(population, desired_amount)
    /\ pc' = "done"
    /\ UNCHANGED side_vars
    /\ UNCHANGED << config_vars, loop_vars, individuals, quota, population,
                    idx, on_initial, on_generation, population_on_generation,
                    creates, operator_idx, polled, term_seen, flip_at >>

\* ------------------------------------------------------------ environment
\* the external quota becomes reached, at any moment of the run
QuotaFlip ==
    /\ quota = "open"
    /\ pc \notin { "new", "config_error", "done" }
    /\ quota' = "reached"
    /\ flip_at' = on_generation.count
    /\ UNCHANGED side_vars
    /\ UNCHANGED << pc, config_vars, loop_vars, individuals, population, idx,
                    on_initial, on_generation, population_on_generation,
                    on_result, result, creates, operator_idx, polled, term_seen >>

Next ==
    \/ New
    \/ SeedSupplied
    \/ BuildContext
    \/ FillPoll
    \/ FillEnd
    \/ FillBuild
    \/ AfterSeed
    \/ LoopHead
    \/ Select
    \/ Search
    \/ AddOffspring
    \/ OnGeneration
    \/ Result
    \/ QuotaFlip

Spec == Init /\ [][Next]_vars


\* ======================================================== DynamicSelective
\* src/rosomaxa/src/hyper/dynamic_selective.rs.  A float is represented by
\* an exact fraction num / den with den > 0.
Frac(n, d) == [num |-> n, den |-> d]

FracLess(a, b) == a.num * b.den < b.num * a.den

FracEq(a, b) == a.num * b.den = b.num * a.den

\* (mutant) the ratio is used as it is
Clamp_none(x, min, max) == x

\* f64::clamp(self, min, max)
Clamp(x, min, max) ==
    IF FracLess(x, min) THEN min ELSE IF FracLess(max, x) THEN max ELSE x

\* the variants of SearchState
StateKinds == { "BestKnown", "Diverse", "BestMajorImprovement",
                "BestMinorImprovement", "DiverseImprovement", "Stagnated" }

\* the variants an agent starts in, and those a take_action ends in
InitialKinds == { "BestKnown", "Diverse" }

TerminalKinds == StateKinds \ InitialKinds

\* SearchState: a variant holding its MedianRatio
SearchState(kind, ratio) == [kind |-> kind, ratio |-> ratio]

\* (mutant) a fresh state carries the largest ratio
DefaultRatio_two == Frac(2, 1)

\* MedianRatio::default(): ratio 0.
DefaultRatio == Frac(0, 1)

\* (mutant) a ratio of exactly 1.001 still counts as not slower
eval_threshold_inclusive(self_ratio, value) ==
    LET ratio == Clamp(self_ratio, Frac(1, 2), Frac(2, 1))
    IN IF ~FracLess(Frac(1001, 1000), ratio) THEN Frac(value, 1)
       ELSE IF value = 0 THEN Frac(-2 * ratio.num, ratio.den)
       ELSE IF value < 0 THEN Frac(value * ratio.num, ratio.den)
       ELSE Frac(value * ratio.den, ratio.num)

\* MedianRatio::eval(&self, value)
eval(self_ratio, value) ==
    LET ratio == Clamp(self_ratio, Frac(1, 2), Frac(2, 1))
    IN IF FracLess(ratio, Frac(1001, 1000)) THEN Frac(value, 1)
       ELSE IF value = 0 THEN Frac(-2 * ratio.num, ratio.den)
       ELSE IF value < 0 THEN Frac(value * ratio.num, ratio.den)
       ELSE Frac(value * ratio.den, ratio.num)

\* the value each variant hands to eval in SearchState::reward
BaseReward(kind) ==
    CASE kind = "BestKnown" -> 0
      [] kind = "Diverse" -> 0
      [] kind = "BestMajorImprovement" -> 1000
      [] kind = "BestMinorImprovement" -> 100
      [] kind = "DiverseImprovement" -> 10
      [] kind = "Stagnated" -> -1

\* SearchState::reward(&self)
reward(state) == eval(state.ratio, BaseReward(state.kind))

\* the evolution simulator is not running
NoEvolution ==
    /\ pc = "aside"
    /\ individuals = << >>
    /\ max_size = -1
    /\ operators_len = -1
    /\ desired_amount = 0
    /\ quota = "none"
    /\ strategy_population = << >>
    /\ population = << >>
    /\ idx = 0
    /\ parents = << >>
    /\ offspring = << >>
    /\ is_improved = FALSE
    /\ generations = 0
    /\ on_initial = << >>
    /\ on_generation = NoGenerations
    /\ population_on_generation = 0
    /\ on_result = 0
    /\ result = NoResult
    /\ creates = 0
    /\ operator_idx = -1
    /\ calls = NoCalls
    /\ totals = NoTotals
    /\ polled = NoPoll
    /\ term_seen = FALSE
    /\ flip_at = -1

\* ------------------------------------------------------- float arithmetic
Abs(x) == IF x < 0 THEN -x ELSE x

RECURSIVE GCD(_, _)
GCD(a, b) == IF b = 0 THEN a ELSE GCD(b, a % b)

\* the fraction in lowest terms: equal floats are equal values
Norm(x) ==
    LET g == GCD(Abs(x.num), x.den)
    IN Frac(x.num \div g, x.den \div g)

FracAdd(a, b) == Norm(Frac(a.num * b.den + b.num * a.den, a.den * b.den))

FracSub(a, b) == Norm(Frac(a.num * b.den - b.num * a.den, a.den * b.den))

FracMul(a, b) == Norm(Frac(a.num * b.num, a.den * b.den))

Zero == Frac(0, 1)

\* ------------------------------------------- collaborators of the dispatcher
\* relative_distance of two one-component fitness vectors
relative_distance(a, b) ==
    IF a = b THEN Zero
    ELSE Norm(Frac(Abs(a - b), IF a < b THEN b ELSE a))

\* Remedian::add_observation, below the width of 11 of its first bucket
add_observation(observations, x) == Insert(observations, x)

\* Remedian::approx_median: << median >>, or << >> without observations
approx_median(observations) ==
    IF observations = << >> THEN << >>
    ELSE << observations[(Len(observations) \div 2) + 1] >>

\* MonteCarlo::new(0.1): the estimate moved towards the reward by alpha
MonteCarlo(estimate, r) ==
    FracAdd(estimate, FracMul(Frac(1, 10), FracSub(r, estimate)))

RECURSIVE FracMax(_)
FracMax(values) ==
    IF Len(values) = 1 THEN values[1]
    ELSE LET m == FracMax(Tail(values))
         IN IF FracLess(values[1], m) THEN m ELSE values[1]

RECURSIVE FracSum(_)
FracSum(values) ==
    IF values = << >> THEN Zero
    ELSE FracAdd(values[1], FracSum(Tail(values)))

\* the reducer search hands to run_episodes: the maximum for BestKnown
\* (0 for no value), the mean for every other state
Reducer(kind, values) ==
    IF kind = "BestKnown"
    THEN IF values = << >> THEN Zero ELSE FracMax(values)
    ELSE FracMul(FracSum(values), Frac(1, Len(values)))

\* ActionEstimates::max_estimate: << max >>, or << >> for no estimate
max_estimate(estimates) ==
    IF DOMAIN estimates = { } THEN << >>
    ELSE << FracMax([k \in 1..Len(estimates) |-> estimates[k]]) >>

\* ------------------------------------------------------ DynamicSelective::new
\* (mutant) every state is seeded with an estimate for every operator
InitialEstimates_all_states(n_heuristics) ==
    [kind \in StateKinds |-> [k \in 1..n_heuristics |-> Zero]]

\* initial_estimates: estimates[k] is that of SearchAction::Search
\* { heuristic_idx: k - 1 }
InitialEstimates(n_heuristics) ==
    LET operator_estimates == [k \in 1..n_heuristics |-> Zero]
    IN [kind \in StateKinds |->
          IF kind \in InitialKinds THEN operator_estimates ELSE << >>]

NoContext == << >>

\* Simulator::new(learning, policy): no state has estimates yet
NoEstimates == [kind \in { } |-> << >>]

DsInit ==
    /\ NoEvolution
    /\ NoProbe
    /\ ds_pc = "idle"
    /\ heuristics_len \in 0..MaxHeuristics
    /\ initial_estimates = InitialEstimates(heuristics_len)
    /\ heuristic_simulator = NoEstimates
    /\ heuristic_median = << >>
    /\ heuristic_ctx = NoContext
    /\ agents = << >>
    /\ returned = << >>
    /\ median_before = << >>
    /\ estimates_before = NoEstimates
    /\ searches = 0

\* ------------------------------------------------- take_action: next state
\* std::cmp::Ordering, and the absence of a best solution
Orderings == { "Less", "Equal", "Greater" }

\* objective.total_order(a, b) for fitness values, lower being better
total_order(a, b) ==
    IF a < b THEN "Less" ELSE IF a = b THEN "Equal" ELSE "Greater"

\* compare_to_best: ranked().next().map(total_order).unwrap_or(Less), given
\* the order of the solution to the best one, "None" when there is no best
compare_to_best(order_to_best) ==
    IF order_to_best = "None" THEN "Less" ELSE order_to_best

\* is_significant_change, given improvement_1000_ratio and the relative
\* distance of the fitness of the best and of the new solution
is_significant_change(order_to_best, improvement_1000_ratio, distance) ==
    IF order_to_best = "None"
    THEN FracLess(improvement_1000_ratio, Frac(1, 100))
    ELSE FracLess(Frac(1, 100), distance)

\* (mutant) the arm for an improved old solution comes first
NextKind_old_first(compare_to_old, order_to_best, is_significant) ==
    IF compare_to_old = "Less" THEN "DiverseImprovement"
    ELSE IF compare_to_best(order_to_best) = "Less"
    THEN IF is_significant
         THEN "BestMajorImprovement" ELSE "BestMinorImprovement"
    ELSE "Stagnated"

\* self.state = match (compare_to_old, compare_to_best) { .. }
NextKind(compare_to_old, order_to_best, is_significant) ==
    IF compare_to_best(order_to_best) = "Less"
    THEN IF is_significant
         THEN "BestMajorImprovement" ELSE "BestMinorImprovement"
    ELSE IF compare_to_old = "Less" THEN "DiverseImprovement"
    ELSE "Stagnated"

\* ------------------------------------ evaluation of the classification alone
\* values of improvement_1000_ratio and of relative_distance around 0.01
Thousandths == { Frac(n, 1000) : n \in { 0, 9, 10, 11, 1000 } }

ClassifyInputs ==
    [compare_to_old : Orderings, order_to_best : Orderings \cup { "None" },
     improvement_1000_ratio : Thousandths, distance : Thousandths]

ClassifyInit ==
    /\ NoEvolution
    /\ NoDispatcher
    /\ probe_in \in ClassifyInputs
    /\ probe_out = << >>

\* the match of take_action on the two orderings
EvalNextKind ==
    /\ probe_out = << >>
    /\ probe_in \in ClassifyInputs
    /\ probe_out' =
          << NextKind(probe_in.compare_to_old, probe_in.order_to_best,
                      is_significant_change(probe_in.order_to_best,
                                            probe_in.improvement_1000_ratio,
                                            probe_in.distance)) >>
    /\ UNCHANGED << evolution_vars, dispatcher_vars, probe_in >>

ClassifyNext == EvalNextKind

SpecClassify == ClassifyInit /\ [][ClassifyNext]_vars

\* ---------------------------------------------- evaluation of reward alone
\* the ratios evaluated: duration / median in milliseconds, and the ratios
\* around the thresholds 0.5, 1.001 and 2
Ratios ==
    { Frac(d, m) : d \in 0..MaxRatioNum, m \in 1..MaxRatioDen }
        \cup { Frac(d, 1000) : d \in { 499, 500, 1000, 1001, 1002, 2000, 2001 } }

RewardInit ==
    /\ NoEvolution
    /\ NoDispatcher
    /\ probe_in \in { SearchState(k, r) : k \in StateKinds, r \in Ratios }
    /\ probe_out = << >>

\* state.reward()
EvalReward ==
    /\ probe_out = << >>
    /\ probe_in \in { SearchState(k, r) : k \in StateKinds, r \in Ratios }
    /\ probe_out' = << reward(probe_in) >>
    /\ UNCHANGED << evolution_vars, dispatcher_vars, probe_in >>

RewardNext == EvalReward

SpecReward == RewardInit /\ [][RewardNext]_vars

\* ------------------------------- evaluation of the rewards of two ratios
\* the four states an action can end in, from the best to the worst
RankedKinds ==
    << "BestMajorImprovement", "BestMinorImprovement", "DiverseImprovement",
       "Stagnated" >>

RankingInit ==
    /\ NoEvolution
    /\ NoDispatcher
    /\ probe_in \in [a : Ratios, b : Ratios]
    /\ probe_out = << >>

\* state.reward() of the four states, under each of the two ratios
EvalRewards ==
    /\ probe_out = << >>
    /\ probe_in \in [a : Ratios, b : Ratios]
    /\ probe_out' =
          << [k \in 1..Len(RankedKinds) |->
                [a |-> reward(SearchState(RankedKinds[k], probe_in.a)),
                 b |-> reward(SearchState(RankedKinds[k], probe_in.b))]] >>
    /\ UNCHANGED << evolution_vars, dispatcher_vars, probe_in >>

RankingNext == EvalRewards

SpecRanking == RankingInit /\ [][RankingNext]_vars

\* --------------------------------------------------- DynamicSelective::search
Durations == 0..MaxDuration

\* the populations a context can hold, as far as search reads them: it looks
\* at ranked().next() only
RankedPopulations == { << >> } \cup { << f >> : f \in Fitness }

\* the contexts handed to search: the population and, of the statistics,
\* improvement_1000_ratio, which take_action reads for an empty population
Contexts ==
    { [population |-> << >>, improvement_1000_ratio |-> r] :
         r \in { Zero, Frac(1, 100) } }
        \cup { [population |-> p, improvement_1000_ratio |-> Zero] :
                  p \in RankedPopulations \ { << >> } }

\* the order of a solution to population().ranked().next(), "None" without it
OrderToBest(pop, solution) ==
    IF pop = << >> THEN "None" ELSE total_order(solution, pop[1])

\* (mutant) a parent equal to the best starts in Diverse
InitialKind_equal_is_diverse(pop, solution) ==
    IF compare_to_best(OrderToBest(pop, solution)) = "Less"
    THEN "BestKnown" ELSE "Diverse"

\* state: match compare_to_best(..) { Greater => Diverse, _ => BestKnown }
InitialKind(pop, solution) ==
    IF compare_to_best(OrderToBest(pop, solution)) = "Greater"
    THEN "Diverse" ELSE "BestKnown"

\* the identity of a solution object: the i-th parent borrowed from the
\* population ("parent"), the deep copy made of it ("copy"), and the solution
\* the operator returned to the i-th agent ("result")
Ref(kind, i) == [kind |-> kind, of |-> i]

\* (mutant) the agent works on its parent, without a copy
SearchAgent_shares_parent(pop, solution, i) ==
    [original |-> solution,
     solution |-> << solution >>,
     state |-> SearchState(InitialKind(pop, solution), DefaultRatio),
     runtime |-> << >>,
     start |-> InitialKind(pop, solution),
     action |-> -1,
     working |-> Ref("parent", i),
     searched |-> << >>]

\* Box::new(SearchAgent { .. }) for the i-th parent; start is the state the
\* episode began in and action the heuristic_idx of the action taken, -1
\* before it; working is the object held in self.solution and searched the
\* object the operator was applied to, << >> before the action
SearchAgent(pop, solution, i) ==
    [original |-> solution,
     solution |-> << solution >>,
     state |-> SearchState(InitialKind(pop, solution), DefaultRatio),
     runtime |-> << >>,
     start |-> InitialKind(pop, solution),
     action |-> -1,
     working |-> Ref("copy", i),
     searched |-> << >>]

\* SearchAgent::get_actions: self.estimates[state].clone()
get_actions(kind) == initial_estimates[kind]

\* the ratio take_action stores in the next state
median_ratio(median, duration) ==
    IF median = << >> THEN Frac(1, 1)
    ELSE IF median[1] = 0 THEN Frac(1, 1)
    ELSE Norm(Frac(duration, median[1]))

\* (mutant) an agent whose operator brought nothing stays in the state it
\* started in
take_action_stagnated_stays(agent, heuristic_idx, new_solution, duration, median, ctx) ==
    LET compare_to_old == total_order(new_solution, agent.original)
        order_to_best == OrderToBest(ctx.population, new_solution)
        kind == NextKind(compare_to_old, order_to_best, TRUE)
    IN [agent EXCEPT
          !.state = SearchState(IF kind = "Stagnated" THEN agent.start
                                ELSE kind,
                                median_ratio(median, duration)),
          !.solution = << new_solution >>,
          !.runtime = Append(@, duration),
          !.action = heuristic_idx,
          !.searched = << agent.working >>,
          !.working = Ref("result", agent.working.of)]

\* SearchAgent::take_action for the operator's result and its duration
take_action(agent, heuristic_idx, new_solution, duration, median, ctx) ==
    LET compare_to_old == total_order(new_solution, agent.original)
        order_to_best == OrderToBest(ctx.population, new_solution)
        distance ==
            IF ctx.population = << >> THEN Zero
            ELSE relative_distance(ctx.population[1], new_solution)
        significant ==
            is_significant_change(order_to_best, ctx.improvement_1000_ratio,
                                  distance)
    IN [agent EXCEPT
          !.state = SearchState(NextKind(compare_to_old, order_to_best,
                                         significant),
                                median_ratio(median, duration)),
          !.solution = << new_solution >>,
          !.runtime = Append(@, duration),
          !.action = heuristic_idx,
          !.searched = << agent.working >>,
          !.working = Ref("result", agent.working.of)]

\* the episode of an agent is over: its state has no action to choose from
EpisodeOver(agent) == get_actions(agent.state.kind) = << >>

\* let agents = solutions.into_iter().map(..).collect()
SearchBegin ==
    /\ ds_pc = "idle"
    /\ searches < MaxSearches
    /\ \E ctx \in Contexts, solutions \in SeqsUpTo(Fitness, MaxParents) :
          /\ heuristic_ctx' = ctx
          /\ agents' = [i \in 1..Len(solutions) |->
                          SearchAgent(ctx.population, solutions[i], i)]
    /\ median_before' = heuristic_median
    /\ estimates_before' = heuristic_simulator
    /\ ds_pc' = "episodes"
    /\ UNCHANGED << evolution_vars, probe_vars, heuristics_len,
                    initial_estimates, heuristic_simulator, heuristic_median,
                    returned, searches >>

\* (mutant) the duration is added to the median as soon as it is measured
ObservedInEpisode_at_once(observations, duration) ==
    add_observation(observations, duration)

\* what an episode does to heuristic_median, of which the agent holds a shared
\* reference: the duration goes to the agent's own runtime
ObservedInEpisode(observations, duration) == observations

\* one episode of run_episodes: the policy picks an action of the agent's
\* state, the agent takes it, and the next state has no action
TakeAction(i) ==
    /\ ds_pc = "episodes"
    /\ ~EpisodeOver(agents[i])
    /\ \E k \in DOMAIN get_actions(agents[i].state.kind),
          new_solution \in Fitness, duration \in Durations :
          /\ agents' = [agents EXCEPT ![i] =
                          take_action(@, k - 1, new_solution, duration,
                                      approx_median(heuristic_median),
                                      heuristic_ctx)]
          /\ heuristic_median' = ObservedInEpisode(heuristic_median, duration)
    /\ UNCHANGED << evolution_vars, probe_vars, ds_pc, heuristics_len,
                    initial_estimates, heuristic_simulator, heuristic_ctx,
                    returned, median_before, estimates_before, searches >>

\* (mutant) a panic of the operator is caught: the agent keeps its solution
\* and is moved to Stagnated
OperatorPanics_contained(i) ==
    /\ ds_pc = "episodes"
    /\ ~EpisodeOver(agents[i])
    /\ agents' = [agents EXCEPT
                    ![i].state = SearchState("Stagnated", DefaultRatio)]
    /\ UNCHANGED << evolution_vars, probe_vars, ds_pc, heuristics_len,
                    initial_estimates, heuristic_simulator, heuristic_median,
                    heuristic_ctx, returned, median_before, estimates_before,
                    searches >>

\* heuristic.search panics in take_action: nothing catches the panic, and
\* search unwinds, dropping its agents, without having returned
OperatorPanics(i) ==
    /\ ds_pc = "episodes"
    /\ ~EpisodeOver(agents[i])
    /\ ds_pc' = "panicked"
    /\ agents' = << >>
    /\ heuristic_ctx' = NoContext
    /\ UNCHANGED << evolution_vars, probe_vars, heuristics_len,
                    initial_estimates, heuristic_simulator, heuristic_median,
                    returned, median_before, estimates_before, searches >>

\* the estimates of a state as an episode reads them
Snapshot(table, kind) ==
    IF kind \in DOMAIN table THEN table[kind] ELSE get_actions(kind)

\* the new estimates of the episodes that took action k in state kind
EpisodeValues(table, kind, k) ==
    LET taken == SelectSeq([i \in 1..Len(agents) |-> i],
                           LAMBDA i : /\ agents[i].start = kind
                                      /\ agents[i].action = k - 1)
    IN [j \in 1..Len(taken) |->
          MonteCarlo(Snapshot(table, kind)[k], reward(agents[taken[j]].state))]

\* the state estimates after the episodes were merged
Merged(table) ==
    LET started == { agents[i].start : i \in { j \in 1..Len(agents) :
                                                agents[j].action # -1 } }
    IN [kind \in DOMAIN table \cup started |->
          [k \in DOMAIN Snapshot(table, kind) |->
             IF EpisodeValues(table, kind, k) = << >>
             THEN Snapshot(table, kind)[k]
             ELSE Reducer(kind, EpisodeValues(table, kind, k))]]

\* the durations of all agents, in the order of the agents
RECURSIVE Runtimes(_)
Runtimes(as) ==
    IF as = << >> THEN << >> ELSE Head(as).runtime \o Runtimes(Tail(as))

RECURSIVE AddObservations(_, _)
AddObservations(observations, values) ==
    IF values = << >> THEN observations
    ELSE AddObservations(add_observation(observations, Head(values)),
                         Tail(values))

\* (mutant) only the agents that improved hand their solution back
Individuals_improved_only(as) ==
    LET kept == SelectSeq(as, LAMBDA a : a.state.kind # "Stagnated")
    IN [j \in 1..Len(kept) |-> kept[j].solution[1]]

\* filter_map and fold: the solutions of the agents that hold one
Individuals(as) ==
    LET kept == SelectSeq(as, LAMBDA a : a.solution # << >>)
    IN [j \in 1..Len(kept) |-> kept[j].solution[1]]

\* (mutant) a state without estimates counts as one whose best estimate is 0
try_exchange_estimates_absent_is_zero(table) ==
    LET best_known_max ==
            IF "BestKnown" \in DOMAIN table
            THEN max_estimate(table["BestKnown"]) ELSE << Zero >>
        diverse_state_max ==
            IF "Diverse" \in DOMAIN table
            THEN max_estimate(table["Diverse"]) ELSE << >>
        is_best_known_stagnation ==
            IF best_known_max = << >> THEN FALSE
            ELSE ~FracLess(Zero, best_known_max[1])
        is_diverse_improvement ==
            IF diverse_state_max = << >> THEN FALSE
            ELSE FracLess(Zero, diverse_state_max[1])
    IN IF is_best_known_stagnation /\ is_diverse_improvement
       THEN [kind \in DOMAIN table \cup { "BestKnown" } |->
               IF kind = "BestKnown" THEN table["Diverse"] ELSE table[kind]]
       ELSE table

\* try_exchange_estimates(&mut self.heuristic_simulator)
try_exchange_estimates(table) ==
    LET best_known_max ==
            IF "BestKnown" \in DOMAIN table
            THEN max_estimate(table["BestKnown"]) ELSE << >>
        diverse_state_max ==
            IF "Diverse" \in DOMAIN table
            THEN max_estimate(table["Diverse"]) ELSE << >>
        is_best_known_stagnation ==
            IF best_known_max = << >> THEN FALSE
            ELSE ~FracLess(Zero, best_known_max[1])
        is_diverse_improvement ==
            IF diverse_state_max = << >> THEN FALSE
            ELSE FracLess(Zero, diverse_state_max[1])
    IN IF is_best_known_stagnation /\ is_diverse_improvement
       THEN [kind \in DOMAIN table \cup { "BestKnown" } |->
               IF kind = "BestKnown" THEN table["Diverse"] ELSE table[kind]]
       ELSE table

\* the rest of search once every episode is over: run_episodes merges the
\* episodes and returns the agents, individuals and runtimes are collected,
\* the runtimes are added to the median and the estimates exchanged
Finish ==
    /\ ds_pc = "episodes"
    /\ \A i \in 1..Len(agents) : EpisodeOver(agents[i])
    /\ returned' = Individuals(agents)
    /\ heuristic_median' = AddObservations(heuristic_median, Runtimes(agents))
    /\ heuristic_simulator' =
          try_exchange_estimates(Merged(heuristic_simulator))
    /\ ds_pc' = "return"
    /\ UNCHANGED << evolution_vars, probe_vars, heuristics_len,
                    initial_estimates, heuristic_ctx, agents, median_before,
                    estimates_before, searches >>

\* search returns individuals; the agents and the borrowed context are gone
Return ==
    /\ ds_pc = "return"
    /\ searches' = searches + 1
    /\ agents' = << >>
    /\ heuristic_ctx' = NoContext
    /\ returned' = << >>
    /\ median_before' = << >>
    /\ estimates_before' = NoEstimates
    /\ ds_pc' = "idle"
    /\ UNCHANGED << evolution_vars, probe_vars, heuristics_len,
                    initial_estimates, heuristic_simulator, heuristic_median >>

DsNext ==
    \/ SearchBegin
    \/ \E i \in 1..Len(agents) : TakeAction(i)
    \/ \E i \in 1..Len(agents) : OperatorPanics(i)
    \/ Finish
    \/ Return

SpecDS == DsInit /\ [][DsNext]_vars

\* ------------------------------------ check_stop_has_proper_demand_change
\* loads and demands have one dimension, as in the unit test; a capacity is
\* modelled by its one component

\* an activity: its type and its demand, << >> for None
Activity(type, demand) == [activity_type |-> type, demand |-> demand]

\* the activities of a stop: none, one of each type, a pickup without a
\* demand, and pairs whose demands add up, cancel out or count in part
ActivityLists ==
    { << >>,
      << Activity("delivery", << 1 >>) >>,
      << Activity("pickup", << 1 >>) >>,
      << Activity("departure", << 1 >>) >>,
      << Activity("pickup", << >>) >>,
      << Activity("delivery", << 1 >>), Activity("delivery", << 1 >>) >>,
      << Activity("pickup", << 1 >>), Activity("delivery", << 1 >>) >>,
      << Activity("departure", << 1 >>), Activity("pickup", << 1 >>) >> }

\* StopInfo: the load reported for the stop and its activities
Stops == [load : 0..MaxLoad, activities : ActivityLists]

\* TourInfo with at least one stop
Tours == SeqsUpTo(Stops, MaxStops) \ { << >> }

\* activity.get_demand()?.unwrap_or_else(|| vec![0])
get_demand(activity) ==
    IF activity.demand = << >> THEN 0 ELSE activity.demand[1]

\* (mutant) a delivery adds its demand to the load
demand_change_delivery_adds(acc, activity) ==
    IF activity.activity_type \in { "delivery", "pickup" }
    THEN acc + get_demand(activity)
    ELSE acc

\* the match on activity_type inside the fold over the activities
demand_change(acc, activity) ==
    CASE activity.activity_type = "delivery" -> acc - get_demand(activity)
      [] activity.activity_type = "pickup" -> acc + get_demand(activity)
      [] OTHER -> acc

\* stop.activities.iter().try_fold(MultiDimensionalCapacity::new(vec![0]), ..)
RECURSIVE total_demand(_, _)
total_demand(acc, activities) ==
    IF activities = << >> THEN acc
    ELSE total_demand(demand_change(acc, Head(activities)), Tail(activities))

\* Err(format!("Stop load mismatch: result '{:?}' != expected '{:?}'", ..))
StopLoadMismatch(stop_load, expected) ==
    [kind |-> "Err", message |-> "Stop load mismatch",
     result |-> stop_load, expected |-> expected]

\* tour.stops.iter().skip(1).try_fold(initial_load, |acc, stop| ..)
RECURSIVE try_fold_stops(_, _)
try_fold_stops(acc, stops) ==
    IF stops = << >> THEN [kind |-> "Ok"]
    ELSE LET stop == Head(stops)
             stop_load == stop.load
             expected == acc + total_demand(0, stop.activities)
         IN IF stop_load # expected
            THEN StopLoadMismatch(stop_load, expected)
            ELSE try_fold_stops(stop_load, Tail(stops))

check_stop_has_proper_demand_change(tour) ==
    LET initial_load == tour[1].load
    IN try_fold_stops(initial_load, Tail(tour))

DemandInit ==
    /\ NoEvolution
    /\ NoDispatcher
    /\ probe_in \in Tours
    /\ probe_out = << >>

\* check_stop_has_proper_demand_change(&tour_info)
CheckDemand ==
    /\ probe_out = << >>
    /\ probe_in \in Tours
    /\ probe_out' = << check_stop_has_proper_demand_change(probe_in) >>
    /\ UNCHANGED << evolution_vars, dispatcher_vars, probe_in >>

DemandNext == CheckDemand

SpecDemand == DemandInit /\ [][DemandNext]_vars

\* ===================================================================== claims
GenerationPcs == { "select", "search", "add", "on_generation" }

SeedingPcs == { "seed_supplied", "fill", "fill_build", "seeded" }

\* the step that follows each step of a generation
NextInGeneration(p) ==
    CASE p = "select" -> "search"
      [] p = "search" -> "add"
      [] p = "add" -> "on_generation"
      [] p = "on_generation" -> "loop_head"

\* C1: with an empty list of construction operators new returns the
\* configuration error: the program never goes past new, no generation is
\* executed and telemetry receives no on_initial and no on_generation.
C1_EmptyOperatorsRejected ==
    operators_len = 0 =>
        /\ pc \in { "new", "config_error" }
        /\ (pc = "config_error" => result.kind = "Err")
        /\ on_initial = << >>
        /\ on_generation.count = 0
        /\ population_on_generation = 0
        /\ generations = 0
        /\ totals = NoTotals
        /\ creates = 0

\* an empty operator list was rejected although individuals were supplied
C1_Witness ==
    /\ pc = "config_error"
    /\ operators_len = 0
    /\ result.kind = "Err"
    /\ Len(individuals) > 0
    /\ max_size > 0

\* C2: termination and quota are polled before every generation; a poll that
\* sees termination or a reached quota ends the loop, and select, search and
\* add_all are not performed again; a quota that becomes reached in the middle
\* of a generation does not interrupt it: the generation goes on step by step
\* to its on_generation, and the next poll ends the loop.
C2_PolledBeforeEveryGeneration ==
    [][ /\ (pc = "loop_head" /\ pc' # "loop_head") =>
             pc' = IF polled'.is_terminated \/ polled'.is_quota_reached
                   THEN "result" ELSE "select"
        /\ (pc # "select" /\ pc' = "select") => pc = "loop_head"
        /\ (pc \in { "result", "done" }) =>
             /\ pc' \in { "result", "done" }
             /\ totals' = totals
             /\ population' = population
        /\ (pc \in GenerationPcs /\ quota' = "reached") =>
             pc' \in { pc, NextInGeneration(pc) }
        /\ (pc = "on_generation" /\ pc' = "loop_head") =>
             /\ on_generation'.count = on_generation.count + 1
             /\ population_on_generation' = population_on_generation + 1
        /\ (pc = "loop_head" /\ pc' # "loop_head" /\ quota = "reached") =>
             pc' = "result"
      ]_vars

\* the quota became reached in the middle of a generation, the generation was
\* completed, and the next poll stopped the loop on the quota alone
C2_Witness ==
    /\ pc = "result"
    /\ polled.is_quota_reached
    /\ ~polled.is_terminated
    /\ generations >= 1
    /\ flip_at = on_generation.count - 1


\* C3: when the quota is reached as the offspring come back and the
\* population of the heuristic context is not empty, add_all is not called,
\* the population stays as it is and is_improved is false; otherwise add_all is
\* called and is_improved is what it returns; on_generation reports is_improved.
C3_QuotaSuppressesAddAll ==
    [][ /\ (pc = "add" /\ pc' = "on_generation") =>
             IF quota = "reached" /\ population # << >>
             THEN /\ totals'.add_all = totals.add_all
                  /\ population' = population
                  /\ is_improved' = FALSE
             ELSE is_improved' = PopAddAllImproved(population, offspring)
        /\ (pc = "on_generation" /\ pc' = "loop_head") =>
             on_generation'.is_improved = is_improved
      ]_vars

\* C4: a constructed simulator's run never returns an error: the only Err is
\* the one of new, what run returns is Ok with a possibly empty list, and the
\* one indexing run does (operators[operator_idx]) is always within the list.
C4_RunNeverFails ==
    /\ result.kind = "Err" => pc = "config_error"
    /\ pc = "done" => result.kind = "Ok"
    /\ pc \in SeedingPcs => operators_len >= 1
    /\ pc = "fill_build" =>
          /\ OperatorChoice(idx, operators_len) # { }
          /\ OperatorChoice(idx, operators_len) \subseteq 0..(operators_len - 1)

\* run returned Ok with no solution: the population was empty after seeding
\* and termination fired before the first generation
C4_Witness ==
    /\ pc = "done"
    /\ result = [kind |-> "Ok", solutions |-> << >>]
    /\ population = << >>
    /\ generations = 0
    /\ polled.is_terminated
    /\ desired_amount > 0

\* C5: on_result is emitted exactly once, when the loop has exited and after
\* which nothing happens any more, and the returned list is the first
\* min(desired_amount, size) solutions of the population, best first.
C5_ResultIsRankedPrefix ==
    /\ on_result = IF pc = "done" THEN 1 ELSE 0
    /\ pc = "done" =>
          /\ ~ENABLED Next
          /\ result.kind = "Ok"
          /\ Len(result.solutions) = Min(desired_amount, Len(population))
          /\ \A i \in 1..Len(result.solutions) :
                result.solutions[i] = population[i]
          /\ \A i, j \in 1..Len(population) :
                i < j => population[i] <= population[j]

\* fewer solutions were desired than the population holds, after a generation
C5_Witness ==
    /\ pc = "done"
    /\ on_result = 1
    /\ generations >= 1
    /\ desired_amount >= 1
    /\ desired_amount < Len(population)
    /\ population[1] < population[Len(population)]
    /\ Len(result.solutions) = desired_amount

\* C6: throughout the seeding (supplied individuals, then the fill) the
\* population holds at most initial.max_size solutions.
C6_SeedingSizeBound ==
    pc \in SeedingPcs => PopSize(population) <= max_size

\* more individuals were supplied than max_size, and max_size were added
C6_Witness ==
    /\ pc = "seed_supplied"
    /\ max_size >= 1
    /\ Len(individuals) > max_size
    /\ idx = max_size
    /\ PopSize(population) = max_size

\* the supplied individuals whose on_initial was reported
SuppliedAdded ==
    [k \in 1..Len(on_initial) |-> individuals[on_initial[k] + 1]]

\* C7: seeding from the supplied individuals goes through the first max_size
\* of them in their order; each is added (on_initial, add) unless the quota is
\* reached and the population is not empty, so the first one is always added
\* and none beyond max_size ever is.
C7_SuppliedSeeding ==
    /\ [](pc = "seed_supplied" =>
            /\ idx <= Min(max_size, Len(individuals))
            /\ \A k \in 1..Len(on_initial) : on_initial[k] < idx
            /\ \A k \in 1..(Len(on_initial) - 1) :
                  on_initial[k] < on_initial[k + 1]
            /\ idx >= 1 => (on_initial # << >> /\ on_initial[1] = 0)
            /\ population = PopAddAll(<< >>, SuppliedAdded))
    /\ [][ (pc = "seed_supplied" /\ idx' # idx /\ pc' = pc) =>
             /\ idx' = idx + 1
             /\ on_initial' =
                   IF quota = "reached" /\ population # << >>
                   THEN on_initial ELSE Append(on_initial, idx)
         ]_vars

\* with the quota reached the first supplied individual was added and the
\* second one skipped
C7_Witness ==
    /\ pc = "seed_supplied"
    /\ quota = "reached"
    /\ idx = 2
    /\ on_initial = << 0 >>
    /\ population = << individuals[1] >>

\* C8: in the fill every construction is preceded by its own poll of the
\* termination and of the estimate against initial.quota; a poll that sees
\* either ends the seeding, and create is not called again.
C8_FillPolledBeforeCreate ==
    [][ /\ (pc = "fill" /\ pc' # "fill") =>
             pc' = IF idx >= max_size THEN "seeded"
                   ELSE IF polled'.is_terminated
                           \/ polled'.is_initial_quota_reached
                        THEN "seeded" ELSE "fill_build"
        /\ (pc # "fill_build" /\ pc' = "fill_build") => pc = "fill"
        /\ creates' # creates =>
             /\ pc = "fill_build"
             /\ pc' = "fill"
             /\ creates' = creates + 1
        /\ pc \notin { "new", "seed_supplied", "fill", "fill_build" } =>
             /\ creates' = creates
             /\ pc' \notin { "fill", "fill_build" }
      ]_vars

\* after one construction the next poll saw the termination alone and the
\* seeding stopped short of max_size
C8_Witness ==
    /\ pc = "seeded"
    /\ polled.is_terminated
    /\ ~polled.is_initial_quota_reached
    /\ creates = 1
    /\ idx < max_size

\* C9: between the seeding and the first generation's own on_generation,
\* telemetry has received exactly one on_generation, with is_improved = true,
\* if the population holds a solution, and none if it is empty; none is
\* received before the seeding has ended.
C9_FirstOnGeneration ==
    /\ pc \in { "new", "config_error" } \cup SeedingPcs =>
          /\ on_generation = NoGenerations
          /\ population_on_generation = 0
    /\ (pc \in { "loop_head", "select", "search", "add" } /\ generations = 0) =>
          /\ on_generation =
                IF population # << >>
                THEN [count |-> 1, is_improved |-> TRUE]
                ELSE NoGenerations
          /\ population_on_generation = on_generation.count

\* the first generation starts after one on_generation(true) for a seeded
\* population of two
C9_Witness ==
    /\ pc = "select"
    /\ generations = 0
    /\ PopSize(population) = 2
    /\ on_generation = [count |-> 1, is_improved |-> TRUE]

CallsToAdd == { << "select", "search" >>, << "select", "search", "add_all" >> }

\* the calls of a whole generation
CallsOfGeneration ==
    { c \o << "telemetry.on_generation", "population.on_generation" >> :
         c \in CallsToAdd }

\* 1 when the generation under way is at one of the positions ps, else 0
Underway(ps) == IF pc \in ps THEN 1 ELSE 0

\* C11: within a generation the collaborators are called in the order
\* population.select, heuristic.search, population.add_all (unless it is
\* suppressed), telemetry.on_generation, population.on_generation, and the
\* generations do not overlap: a select is the first call of its generation,
\* is made when every earlier generation has had its on_generation, and reads
\* the population as the earlier generation left it.
C11_GenerationOrder ==
    /\ [](/\ pc = "search" =>
               /\ calls = << "select" >>
               /\ parents = PopSelect(population)
          /\ pc = "add" => calls = << "select", "search" >>
          /\ pc = "on_generation" => calls \in CallsToAdd
          /\ (pc \in { "loop_head", "select", "result", "done" }
                /\ generations >= 1) => calls \in CallsOfGeneration
          /\ totals.select =
                generations + Underway({ "search", "add", "on_generation" })
          /\ totals.search = generations + Underway({ "add", "on_generation" })
          /\ totals.add_all <= generations + Underway({ "on_generation" })
          /\ population_on_generation = on_generation.count
          /\ generations <= on_generation.count
          /\ on_generation.count <= generations + 1)
    /\ [][ /\ (pc = "select" /\ pc' = "search") =>
                /\ parents' = PopSelect(population)
                /\ population' = population
           /\ pc \in { "on_generation", "loop_head", "select", "search" } =>
                population' = population
           /\ population' # population =>
                (pc = "add" \/ pc \in SeedingPcs)
         ]_vars

\* the second generation has selected its parents from a population that the
\* first generation's add_all had changed
C11_Witness ==
    /\ pc = "search"
    /\ generations = 1
    /\ totals.add_all = 1
    /\ strategy_population = << >>
    /\ calls = << "select" >>
    /\ parents = << 0, 0 >>
    /\ population = << 0, 0, 1 >>

\* C12 (as the claim has it): a configuration whose initial.max_size is 0 is
\* rejected by new, as one with no construction operator is.
C12_ZeroMaxSizeRejected ==
    (max_size = 0 /\ pc # "new") => pc = "config_error"

\* C12 (amended): max_size = 0 is not a configuration error: new rejects a
\* configuration only for an empty operator list; with max_size = 0 the
\* seeding adds no supplied individual, calls no construction operator, fires
\* no on_initial and no on_generation, and leaves an empty population to the
\* strategy.
C12_ZeroMaxSizeAccepted ==
    max_size = 0 =>
        /\ pc = "config_error" => operators_len = 0
        /\ (operators_len >= 1 /\ pc # "new") => pc \in SeedingPcs
        /\ result.kind = "Err" => operators_len = 0
        /\ population = << >>
        /\ on_initial = << >>
        /\ creates = 0
        /\ on_generation = NoGenerations

\* the seeding has ended for max_size = 0: nothing was built or added
C12_Witness ==
    /\ pc = "seeded"
    /\ max_size = 0
    /\ operators_len >= 1
    /\ population = << >>
    /\ creates = 0
    /\ result.kind = "None"

\* C19 (as the claim has it): in the fill the operator of a build is
\* operators[idx] while idx < operators.len() and a weighted random one
\* otherwise, and the builds go through the operators one by one from the
\* first: the k-th build uses operator k - 1 as long as there is one, also
\* when individuals were supplied.
C19_EachOperatorFirst ==
    [][ (pc = "fill_build" /\ pc' = "fill") =>
          /\ operator_idx' \in 0..(operators_len - 1)
          /\ idx < operators_len => operator_idx' = idx
          /\ creates < operators_len => operator_idx' = creates
      ]_vars

\* C14: with r the ratio clamped to [0.5, 2] and b the base reward of the
\* state, the reward is b when r < 1.001; otherwise it is -2 * r when b = 0,
\* b * r when b < 0, and b / r (the value that times r gives b) when b > 0.
C14_RewardModulation ==
    probe_out # << >> =>
        LET b == BaseReward(probe_in.kind)
            n == probe_in.ratio.num
            d == probe_in.ratio.den
            r == IF 2 * n < d THEN Frac(1, 2)
                 ELSE IF n > 2 * d THEN Frac(2, 1) ELSE Frac(n, d)
            out == probe_out[1]
        IN /\ b \in { 1000, 100, 10, 0, -1 }
           /\ out.den > 0
           /\ IF 1000 * r.num < 1001 * r.den
              THEN out.num = b * out.den
              ELSE IF b = 0 THEN out.num * r.den = -2 * r.num * out.den
              ELSE IF b < 0 THEN out.num * r.den = b * r.num * out.den
              ELSE out.num * r.num = b * r.den * out.den

\* a major improvement found in exactly 1.001 times the median is paid
\* 1000 / 1.001
C14_Witness ==
    /\ probe_out # << >>
    /\ probe_in = SearchState("BestMajorImprovement", Frac(1001, 1000))
    /\ FracEq(probe_out[1], Frac(1000000, 1001))

\* C15: a new solution strictly better than the best one (any solution is,
\* when there is no best) becomes BestMajorImprovement when the change is
\* significant and BestMinorImprovement otherwise, the change being
\* significant iff there is no best and improvement_1000_ratio < 0.01, or
\* there is a best and the relative distance to it is > 0.01; else a new
\* solution strictly better than the agent's old one becomes
\* DiverseImprovement; every other one becomes Stagnated.
C15_Classification ==
    probe_out # << >> =>
        LET no_best == probe_in.order_to_best = "None"
            better_than_best == no_best \/ probe_in.order_to_best = "Less"
            better_than_old == probe_in.compare_to_old = "Less"
            i == probe_in.improvement_1000_ratio
            d == probe_in.distance
            significant == \/ no_best /\ 100 * i.num < i.den
                           \/ ~no_best /\ 100 * d.num > d.den
        IN probe_out[1] =
              CASE better_than_best /\ significant -> "BestMajorImprovement"
                [] better_than_best /\ ~significant -> "BestMinorImprovement"
                [] ~better_than_best /\ better_than_old -> "DiverseImprovement"
                [] OTHER -> "Stagnated"

\* a new solution better than the old one and than the best one, at a
\* relative distance of exactly 0.01 from it, is a minor improvement
C15_Witness ==
    /\ probe_out = << "BestMinorImprovement" >>
    /\ probe_in.compare_to_old = "Less"
    /\ probe_in.order_to_best = "Less"
    /\ probe_in.distance = Frac(10, 1000)

\* the best estimate of a state in a table, read as the claim reads it: a
\* state without estimates in the table has its initial ones, all 0
BestOrInitial(table, kind) ==
    max_estimate(IF kind \in DOMAIN table THEN table[kind]
                 ELSE get_actions(kind))

\* C13 (as the claim has it): when, at the end of a search call, the best
\* estimate of BestKnown is <= 0 and the best of Diverse is > 0, BestKnown
\* having its initial estimates of 0 if it was not updated yet, the BestKnown
\* estimates of the simulator's table are the Diverse ones after the call.
C13_ExchangeAlsoWithoutBestKnown ==
    ds_pc = "return" =>
        LET end == Merged(estimates_before)
            best_known == BestOrInitial(end, "BestKnown")
            diverse == BestOrInitial(end, "Diverse")
        IN (/\ best_known # << >>
            /\ diverse # << >>
            /\ ~FracLess(Zero, best_known[1])
            /\ FracLess(Zero, diverse[1])) =>
              /\ "BestKnown" \in DOMAIN heuristic_simulator
              /\ "Diverse" \in DOMAIN heuristic_simulator
              /\ heuristic_simulator["BestKnown"] =
                    heuristic_simulator["Diverse"]

\* the simulator's table has estimates for BestKnown, the best of them <= 0,
\* and for Diverse, the best of them > 0
ExchangeDue(table) ==
    /\ "BestKnown" \in DOMAIN table
    /\ "Diverse" \in DOMAIN table
    /\ max_estimate(table["BestKnown"]) # << >>
    /\ max_estimate(table["Diverse"]) # << >>
    /\ ~FracLess(Zero, max_estimate(table["BestKnown"])[1])
    /\ FracLess(Zero, max_estimate(table["Diverse"])[1])

\* C13 (amended): when, at the end of a search call, the simulator's table
\* has estimates for BestKnown whose best is <= 0 and estimates for Diverse
\* whose best is > 0, the BestKnown estimates are the Diverse ones after the
\* call and nothing else of the table has changed; in every other case, also
\* when the table has no estimates for BestKnown yet, the call leaves the
\* table as the episodes left it.  During the episodes the table is the one
\* of before the call.
C13_ExchangeWhenBestKnownSeen ==
    /\ ds_pc = "episodes" => heuristic_simulator = estimates_before
    /\ ds_pc = "return" =>
          LET end == Merged(estimates_before)
          IN IF ExchangeDue(end)
             THEN /\ DOMAIN heuristic_simulator = DOMAIN end
                  /\ heuristic_simulator["BestKnown"] = end["Diverse"]
                  /\ \A kind \in DOMAIN end \ { "BestKnown" } :
                        heuristic_simulator[kind] = end[kind]
             ELSE heuristic_simulator = end

\* an agent that started in BestKnown stagnated, one that started in Diverse
\* improved, and the call ended with the Diverse estimates in both places
C13_Witness ==
    /\ ds_pc = "return"
    /\ Len(agents) = 2
    /\ agents[1].start = "BestKnown"
    /\ agents[1].state.kind = "Stagnated"
    /\ agents[2].start = "Diverse"
    /\ agents[2].state.kind = "DiverseImprovement"
    /\ heuristic_simulator["BestKnown"] = heuristic_simulator["Diverse"]
    /\ FracLess(Zero, max_estimate(heuristic_simulator["BestKnown"])[1])

\* C16: an agent built by search starts in BestKnown when the population has
\* no best or its parent is not worse than the best (better or equal), and
\* in Diverse when its parent is strictly worse; its ratio is the default
\* one and its working solution the parent.
C16_InitialState ==
    ds_pc \in { "episodes", "return" } =>
        \A i \in 1..Len(agents) :
           LET parent == agents[i].original
               best == heuristic_ctx.population
               expected == IF best = << >> THEN "BestKnown"
                           ELSE IF parent <= best[1] THEN "BestKnown"
                           ELSE "Diverse"
           IN /\ agents[i].start = expected
              /\ agents[i].action = -1 =>
                    /\ agents[i].state = SearchState(expected, Frac(0, 1))
                    /\ agents[i].solution = << parent >>
                    /\ agents[i].runtime = << >>

\* of two agents not yet run, the one whose parent equals the best is in
\* BestKnown and the one whose parent is worse is in Diverse
C16_Witness ==
    /\ ds_pc = "episodes"
    /\ Len(agents) = 2
    /\ heuristic_ctx.population = << 0 >>
    /\ agents[1].original = 0
    /\ agents[1].action = -1
    /\ agents[1].state.kind = "BestKnown"
    /\ agents[2].original = 1
    /\ agents[2].action = -1
    /\ agents[2].state.kind = "Diverse"

\* C17 (as the claim has it): an operator that fails leaves its agent in
\* place and the search going: the failure does not get out of search.
C17_OperatorFailureContained ==
    [][ ds_pc = "episodes" =>
          /\ ds_pc' \in { "episodes", "return" }
          /\ Len(agents') = Len(agents)
      ]_vars

\* C17 (amended): a panic of an operator in take_action is not caught: it
\* ends the search call, whose agents are dropped and which returns nothing,
\* adds no duration to the median, leaves the estimates as they were and is
\* not counted as completed; no agent is moved to a state without its
\* operator having returned: an agent in one of the four final states holds
\* the solution its operator returned, the index of the action taken and the
\* one duration measured.
C17_OperatorPanicPropagates ==
    /\ ds_pc = "panicked" =>
          /\ agents = << >>
          /\ returned = << >>
          /\ heuristic_median = median_before
          /\ heuristic_simulator = estimates_before
          /\ searches < MaxSearches
    /\ \A i \in 1..Len(agents) :
          agents[i].state.kind \in TerminalKinds =>
             /\ agents[i].action \in 0..(heuristics_len - 1)
             /\ Len(agents[i].runtime) = 1
             /\ agents[i].solution # << >>

\* an operator panicked in the second search call, after a first call that
\* had returned and recorded its durations
C17_Witness ==
    /\ ds_pc = "panicked"
    /\ searches = 1
    /\ returned = << >>
    /\ heuristic_median # << >>

\* C18 (as the claim has it): for each of the six states the estimate table
\* holds an estimate for every registered action index.
C18_EstimateForEveryStateAndAction ==
    ds_pc # "aside" =>
        \A kind \in StateKinds :
           /\ kind \in DOMAIN initial_estimates
           /\ DOMAIN initial_estimates[kind] = 1..heuristics_len

\* C18 (amended): the estimate table of the dispatcher has the six states as
\* its keys at all times; for BestKnown and Diverse it holds an estimate for
\* every registered action index, for the four final states it holds no
\* estimate at all, and every estimate it holds is 0, as search never
\* writes to it.
C18_EstimateShape ==
    ds_pc # "aside" =>
        /\ DOMAIN initial_estimates = StateKinds
        /\ \A kind \in InitialKinds :
              /\ DOMAIN initial_estimates[kind] = 1..heuristics_len
              /\ \A k \in 1..heuristics_len :
                    initial_estimates[kind][k] = Frac(0, 1)
        /\ \A kind \in TerminalKinds : initial_estimates[kind] = << >>
        /\ \A i \in 1..Len(agents) :
              DOMAIN get_actions(agents[i].state.kind) =
                 IF agents[i].action = -1 THEN 1..heuristics_len ELSE { }

\* after a search call with two operators registered, in which an agent took
\* the second one
C18_Witness ==
    /\ ds_pc = "return"
    /\ heuristics_len = 2
    /\ Len(agents) >= 1
    /\ agents[1].action = 1
    /\ initial_estimates["BestKnown"] = << Frac(0, 1), Frac(0, 1) >>
    /\ initial_estimates["Stagnated"] = << >>

\* C20: during the episodes of a search call the median is the one of
\* before the call, whatever the order the agents run in, and the ratio of
\* every agent that has run is its duration over that median (1 without a
\* median or with a median of 0); when search returns, the median holds the
\* observations of before the call and the durations of all agents.
C20_MedianBetweenBatches ==
    /\ ds_pc = "episodes" => heuristic_median = median_before
    /\ ds_pc \in { "episodes", "return" } =>
          \A i \in 1..Len(agents) :
             agents[i].action # -1 =>
                agents[i].state.ratio =
                   LET median == approx_median(median_before)
                       duration == agents[i].runtime[1]
                   IN IF median = << >> THEN Frac(1, 1)
                      ELSE IF median[1] = 0 THEN Frac(1, 1)
                      ELSE Norm(Frac(duration, median[1]))
    /\ ds_pc = "return" =>
          /\ Len(heuristic_median) =
                Len(median_before) + Len(Runtimes(agents))
          /\ heuristic_median =
                AddObservations(median_before, Runtimes(agents))
    /\ ds_pc = "idle" => median_before = << >>

\* in a second call, against a median of 1 ms, the agent run first took 1 ms
\* and the agent run second 0 ms: ratios 1 and 0, and both durations are in
\* the median as search returns
C20_Witness ==
    /\ ds_pc = "return"
    /\ searches = 1
    /\ approx_median(median_before) = << 1 >>
    /\ Len(agents) = 2
    /\ agents[1].runtime = << 0 >>
    /\ agents[2].runtime = << 1 >>
    /\ agents[1].state.ratio = Frac(0, 1)
    /\ agents[2].state.ratio = Frac(1, 1)
    /\ Len(heuristic_median) = Len(median_before) + 2

\* C21 (as the claim has it): when a search call returns, every agent has
\* applied exactly one operator, recorded exactly one duration and replaced
\* its working solution once.
C21_ExactlyOneAction ==
    ds_pc = "return" =>
        \A i \in 1..Len(agents) :
           /\ agents[i].action # -1
           /\ Len(agents[i].runtime) = 1

\* C21 (amended): an agent that has taken an action is in one of the four
\* final states, for which no action is offered, and has recorded one
\* duration; an agent that has not is in BestKnown or Diverse with its
\* parent as working solution and no duration.  When a search call returns,
\* every agent has taken exactly one action if an operator is registered,
\* and none if no operator is registered.
C21_OneActionPerAgent ==
    /\ \A i \in 1..Len(agents) :
          IF agents[i].action # -1
          THEN /\ agents[i].state.kind \in TerminalKinds
               /\ get_actions(agents[i].state.kind) = << >>
               /\ agents[i].action \in 0..(heuristics_len - 1)
               /\ Len(agents[i].runtime) = 1
               /\ Len(agents[i].solution) = 1
          ELSE /\ agents[i].state.kind \in InitialKinds
               /\ agents[i].runtime = << >>
               /\ agents[i].solution = << agents[i].original >>
    /\ ds_pc = "return" =>
          \A i \in 1..Len(agents) :
             IF heuristics_len > 0
             THEN agents[i].action # -1 /\ Len(agents[i].runtime) = 1
             ELSE agents[i].action = -1 /\ agents[i].runtime = << >>

\* a search call returns with two agents, one stagnated and one with a major
\* improvement, each with one duration
C21_Witness ==
    /\ ds_pc = "return"
    /\ heuristics_len = 2
    /\ Len(agents) = 2
    /\ agents[1].state.kind = "Stagnated"
    /\ agents[2].state.kind = "BestMajorImprovement"
    /\ Len(agents[1].runtime) = 1
    /\ Len(agents[2].runtime) = 1

\* C22: no agent is ever without a working solution, and when a search call
\* returns, it returns one offspring for every parent, the i-th offspring
\* being the working solution of the agent built for the i-th parent;
\* nothing is returned before that.
C22_OneOffspringPerParent ==
    /\ \A i \in 1..Len(agents) : Len(agents[i].solution) = 1
    /\ ds_pc = "return" =>
          /\ Len(returned) = Len(agents)
          /\ \A i \in 1..Len(agents) : returned[i] = agents[i].solution[1]
    /\ ds_pc # "return" => returned = << >>

\* a call returns for the parents 1 and 1: the first agent stagnated on a
\* result of 1, the second one improved to 0, and the offspring come back
\* in the order of the parents, not of their fitness
C22_Witness ==
    /\ ds_pc = "return"
    /\ Len(agents) = 2
    /\ agents[1].original = 1
    /\ agents[2].original = 1
    /\ agents[1].state.kind = "Stagnated"
    /\ agents[2].state.kind # "Stagnated"
    /\ returned = << 1, 0 >>

\* C23: every agent in BestKnown or Diverse carries the default ratio of 0
\* whatever the median of the durations is, and the reward of its state is
\* 0; an agent is in one of these two states exactly as long as it has not
\* taken an action.
C23_InitialStatesRewardZero ==
    \A i \in 1..Len(agents) :
       /\ agents[i].state.kind \in InitialKinds <=> agents[i].action = -1
       /\ agents[i].state.kind \in InitialKinds =>
             /\ agents[i].state.ratio = Frac(0, 1)
             /\ FracEq(reward(agents[i].state), Frac(0, 1))
             /\ reward(agents[i].state) =
                   reward(SearchState(agents[i].state.kind, Frac(1, 1)))

\* in a second call, with a median of 1 ms known, one agent is in BestKnown
\* and one in Diverse, both before their action
C23_Witness ==
    /\ ds_pc = "episodes"
    /\ searches = 1
    /\ approx_median(heuristic_median) = << 1 >>
    /\ Len(agents) = 2
    /\ agents[1].state.kind = "BestKnown"
    /\ agents[2].state.kind = "Diverse"
    /\ reward(agents[1].state) = reward(agents[2].state)

\* C24: the working solution of the i-th agent is its own object, the deep
\* copy of its parent before the action and the operator's result after it,
\* never the parent and never an object another agent holds; the operator
\* is applied to the agent's own copy; and no step of a search call changes
\* a parent.
C24_OwnDeepCopy ==
    /\ [](\A i \in 1..Len(agents) :
            /\ agents[i].working.kind # "parent"
            /\ agents[i].working.of = i
            /\ IF agents[i].action = -1
               THEN /\ agents[i].working = Ref("copy", i)
                    /\ agents[i].searched = << >>
                    /\ agents[i].solution = << agents[i].original >>
               ELSE /\ agents[i].working = Ref("result", i)
                    /\ agents[i].searched = << Ref("copy", i) >>
            /\ \A j \in 1..Len(agents) :
                  j # i => agents[j].working # agents[i].working)
    /\ [][ \A i \in 1..Len(agents) :
              i <= Len(agents') => agents'[i].original = agents[i].original
         ]_vars

\* two agents built for the same parent value: the first has replaced its
\* copy by a better result, the second still holds its own copy of the
\* parent, which is as it was
C24_Witness ==
    /\ ds_pc = "episodes"
    /\ Len(agents) = 2
    /\ agents[1].original = 1
    /\ agents[2].original = 1
    /\ agents[1].solution = << 0 >>
    /\ agents[1].searched = << Ref("copy", 1) >>
    /\ agents[2].solution = << 1 >>
    /\ agents[2].working = Ref("copy", 2)

\* the sum of the demands of the activities of one type at a stop
RECURSIVE DemandOf(_, _)
DemandOf(type, activities) ==
    IF activities = << >> THEN 0
    ELSE (IF /\ Head(activities).activity_type = type
             /\ Head(activities).demand # << >>
          THEN Head(activities).demand[1] ELSE 0)
         + DemandOf(type, Tail(activities))

\* the load the k-th stop of a tour should report, k > 1
ExpectedLoad(tour, k) ==
    tour[k - 1].load + DemandOf("pickup", tour[k].activities)
                     - DemandOf("delivery", tour[k].activities)

\* the stops after the first whose load is not the expected one
Mismatches(tour) ==
    { k \in 2..Len(tour) : tour[k].load # ExpectedLoad(tour, k) }

FillVariant == 2 * (max_size - idx) + (IF pc = "fill" THEN 1 ELSE 0)

\* C26: the fill iterates over a range fixed when it starts, from the size
\* of the population then to max_size: every step of the fill either ends
\* it or brings it nearer to the end of the range, also when the solution
\* built is skipped (a change of the quota by its owner is no step of the
\* fill); so the number of constructions is at most max_size minus the size
\* of the population at the start of the fill.
C26_FillTerminates ==
    /\ [](pc \in { "fill", "fill_build", "seeded" } =>
             /\ creates <= idx
             /\ idx <= max_size
             /\ PopSize(population) <= idx
             /\ pc = "fill_build" => idx < max_size)
    /\ [][ /\ (pc = "seed_supplied" /\ pc' = "fill") =>
                 /\ creates' = 0
                 /\ idx' = PopSize(population')
           /\ pc \in { "fill", "fill_build" } =>
                 /\ pc' \in { "fill", "fill_build", "seeded" }
                 /\ idx' - creates' = idx - creates
                 /\ (pc' # pc /\ pc' # "seeded") =>
                       /\ FillVariant' < FillVariant
                       /\ FillVariant' >= 0
                 /\ pc' = pc => (idx' = idx /\ population' = population)
                 /\ pc' = "seeded" => creates' = creates
         ]_vars

\* the fill ran to the end of its range although the quota was reached and
\* no termination was seen: the one solution it built was skipped
C26_Witness ==
    /\ pc = "seeded"
    /\ quota = "reached"
    /\ ~term_seen
    /\ max_size = 2
    /\ idx = max_size
    /\ creates = 1
    /\ PopSize(population) = 1

\* x <= y for two fractions
FracLeq(x, y) == x.num * y.den <= y.num * x.den

\* C27: for every two ratios a and b, the reward of a major improvement
\* under a is above that of a minor improvement under b, which under a is
\* above that of a diverse improvement under b, which is above 0, and the
\* reward of Stagnated is below 0; the rewards of the three improvements lie
\* between half their base and their base, that of Stagnated between -2 and
\* -1.
C27_RankingKept ==
    probe_out # << >> =>
        LET out == probe_out[1]
            base == << 1000, 100, 10 >>
        IN /\ FracLess(out[2].b, out[1].a)
           /\ FracLess(out[3].b, out[2].a)
           /\ FracLess(Frac(0, 1), out[3].a)
           /\ FracLess(out[4].a, Frac(0, 1))
           /\ \A k \in 1..3 :
                 /\ FracLeq(Frac(base[k], 2), out[k].a)
                 /\ FracLeq(out[k].a, Frac(base[k], 1))
           /\ FracLeq(Frac(-2, 1), out[4].a)
           /\ FracLeq(out[4].a, Frac(-1, 1))

\* a major improvement that took nine times the median is paid 500, a minor
\* one that took a quarter of it 100; a stagnation of nine medians costs 2
C27_Witness ==
    /\ probe_out # << >>
    /\ probe_in = [a |-> Frac(9, 1), b |-> Frac(1, 4)]
    /\ FracEq(probe_out[1][1].a, Frac(500, 1))
    /\ FracEq(probe_out[1][2].b, Frac(100, 1))
    /\ FracEq(probe_out[1][4].a, Frac(-2, 1))

====
